---- MODULE Spec2Model ----
(***************************************************************************)
(* Model of the scripting binding of db::Technology                        *)
(* (src/src/db/db/gsiDeclDbTechnologies.cc): the registry forwarding       *)
(* functions, the record setters they expose and the default-grid list     *)
(* encoder.                                                                *)
(*                                                                         *)
(* Objects live in a heap (objs) so that "the registry owns a copy" and    *)
(* "the returned reference is the stored record" are statements about      *)
(* object identity.  Object 0 is the Technology object the script created  *)
(* itself (Technology.new); objects 1..MaxTechs are owned by the registry. *)
(* Strings that the code assembles character by character (the grid list)  *)
(* are sequences of one-character strings.                                 *)
(*                                                                         *)
(* The second part models QHoverEvent_Adaptor                              *)
(* (src/src/gsiqt/qt6/QtGui/gsiDeclQHoverEvent.cc): the callback slots of  *)
(* the five overridable methods, the virtual methods that route a call to  *)
(* the script or to QHoverEvent, and the cbs_ entries the script calls.    *)
(***************************************************************************)
EXTENDS Integers, Sequences, FiniteSets, TLC

VARIABLES objs, registry, ref, last, attr, cb, event, frames, call

\* The technology records and the registry.
tvars == <<objs, registry, ref, last, attr>>

\* The QHoverEvent_Adaptor object and the calls in progress on it.
qvars == <<cb, event, frames, call>>

vars == <<objs, registry, ref, last, attr, cb, event, frames, call>>

\* ---------------------------------------------------------------- bounds

\* Largest number of records the registry holds in the model.
MaxTechs == 2

\* Largest number of calls of the object's methods a script callback makes
\* before it returns.
MaxCbsCalls == 1

\* ------------------------------------------------------------ the records

\* Names the script passes to the name-taking functions.
Names == {"A", "B"}

\* The script's own Technology object, and the nil reference.
OwnId == 0
Null == -1
Free == [free |-> TRUE]

RegIds == 1 .. MaxTechs

\* The attributes of a record other than its name.
Attrs == {"description", "group", "dbu", "default_grids", "explicit_base_path"}

\* A default-constructed db::Technology (create_technology line 48,
\* technology_from_xml line 85).
DefaultTechnology ==
  [name |-> "", description |-> "", group |-> "", dbu |-> 1,
   default_grids |-> <<>>, explicit_base_path |-> ""]

Live(id) == id # Null /\ objs[id] # Free

\* ------------------------------------------------ db::Technologies (registry)

\* Position of the first record named n in the registry, 0 if there is none.
FirstPos(reg, o, n) ==
  IF \E i \in 1 .. Len(reg) : o[reg[i]].name = n
    THEN CHOOSE i \in 1 .. Len(reg) :
           /\ o[reg[i]].name = n
           /\ \A j \in 1 .. (i - 1) : o[reg[j]].name # n
    ELSE 0

\* db::Technologies::technology_by_name: the stored record, or nil.
Technologies_technology_by_name(reg, o, n) ==
  IF FirstPos(reg, o, n) = 0 THEN Null ELSE reg[FirstPos(reg, o, n)]

\* db::Technologies::has_technology
Technologies_has_technology(reg, o, n) == FirstPos(reg, o, n) # 0

\* The names in registry order (technology_names, lines 32-39).
technology_names(reg, o) == [i \in 1 .. Len(reg) |-> o[reg[i]].name]

FreshId(o) == CHOOSE id \in RegIds : o[id] = Free /\ \A j \in RegIds : o[j] = Free => id <= j

\* db::Technologies::add_new: a name collision is an error and changes
\* nothing; otherwise a new object holding a copy of tech is appended and
\* a reference to that object is returned.
Technologies_add_new(reg, o, tech) ==
  IF Technologies_has_technology(reg, o, tech.name)
    THEN [err |-> TRUE, reg |-> reg, objs |-> o, id |-> Null]
    ELSE [err |-> FALSE,
          reg |-> Append(reg, FreshId(o)),
          objs |-> [o EXCEPT ![FreshId(o)] = tech],
          id |-> FreshId(o)]

RemoveAt(s, i) == SubSeq(s, 1, i - 1) \o SubSeq(s, i + 1, Len(s))

\* db::Technologies::remove: deletes the entry of that name.
Technologies_remove(reg, o, n) ==
  IF FirstPos(reg, o, n) = 0
    THEN [reg |-> reg, objs |-> o]
    ELSE [reg |-> RemoveAt(reg, FirstPos(reg, o, n)),
          objs |-> [o EXCEPT ![reg[FirstPos(reg, o, n)]] = Free]]

\* db::Technologies::clear
Technologies_clear(reg, o) ==
  [reg |-> <<>>, objs |-> [id \in DOMAIN o |-> IF id = OwnId THEN o[id] ELSE Free]]

\* db::Technologies::load_from_xml: a document that does not parse is an
\* error and changes nothing; otherwise the registry is replaced by the
\* records of the document (doc lists their names, all other fields default).
Technologies_load_from_xml(reg, o, doc) ==
  IF doc = <<"<">>
    THEN [err |-> TRUE, reg |-> reg, objs |-> o]
    ELSE [err |-> FALSE,
          reg |-> [i \in 1 .. Len(doc) |-> i],
          objs |-> [id \in DOMAIN o |->
                      IF id = OwnId THEN o[id]
                      ELSE IF id <= Len(doc)
                        THEN [DefaultTechnology EXCEPT !.name = doc[id]]
                        ELSE Free]]

\* The documents the script passes to technologies_from_xml: one that does
\* not parse, and the lists of distinctly named records.
Docs ==
  {<<"<">>} \cup
  {d \in UNION {[1 .. k -> Names] : k \in 0 .. MaxTechs} :
     \A i, j \in 1 .. Len(d) : d[i] = d[j] => i = j}

\* db::Technology::set_name and the other plain setters of the record.
Technology_set_name(tech, n) == [tech EXCEPT !.name = n]
Technology_set_description(tech, d) == [tech EXCEPT !.description = d]
Technology_set_group(tech, g) == [tech EXCEPT !.group = g]
Technology_set_dbu(tech, d) == [tech EXCEPT !.dbu = d]
Technology_set_explicit_base_path(tech, p) == [tech EXCEPT !.explicit_base_path = p]
Technology_set_default_grids(tech, r) == [tech EXCEPT !.default_grids = r]

\* --------------------------------------------------------- grid list encoder

\* Grid values are lengths in ticks; Prec ticks make up the precision of
\* db::coord_traits<double> (1e-5 micron), which is also the last decimal
\* place tl::micron_to_string prints.
Prec == 2

\* Largest grid value (in ticks) and longest grid list the script passes.
MaxGridTick == 3
MaxGrids == 2

GridValues == 0 .. MaxGridTick
GridLists == UNION {[1 .. k -> GridValues] : k \in 0 .. MaxGrids}

Abs(x) == IF x < 0 THEN -x ELSE x

\* db::coord_traits<db::DCoord>::equals: equal within the precision.
coord_equals(a, b) == Abs(a - b) < Prec

Digit(d) == <<"0", "1", "2", "3", "4", "5", "6", "7", "8", "9">>[d + 1]

RECURSIVE Digits(_)
Digits(n) == IF n < 10 THEN <<Digit(n)>> ELSE Digits(n \div 10) \o <<Digit(n % 10)>>

RECURSIVE Pad(_, _)
Pad(s, w) == IF Len(s) >= w THEN s ELSE Pad(<<"0">> \o s, w)

\* tl::micron_to_string: the value rounded to five decimals of a micron,
\* printed as <integer part>.<five digits>.
micron_to_string(g) ==
  LET u == (g + Prec \div 2) \div Prec
  IN  Digits(u \div 100000) \o <<".">> \o Pad(Digits(u % 100000), 5)

\* The loop of set_default_grid_list2 comparing with == instead of
\* coord_traits::equals.
RECURSIVE grid_list_string_exact(_, _, _)
grid_list_string_exact(grids, default_grid, i) ==
  IF i = 0 THEN <<>>
  ELSE LET r0 == grid_list_string_exact(grids, default_grid, i - 1)
           r1 == IF r0 # <<>> THEN r0 \o <<",">> ELSE r0
           r2 == r1 \o micron_to_string(grids[i])
       IN  IF grids[i] = default_grid THEN r2 \o <<"!">> ELSE r2

\* The loop of set_default_grid_list2 with the condition of line 147
\* negated.
RECURSIVE grid_list_string_negated(_, _, _)
grid_list_string_negated(grids, default_grid, i) ==
  IF i = 0 THEN <<>>
  ELSE LET r0 == grid_list_string_negated(grids, default_grid, i - 1)
           r1 == IF r0 # <<>> THEN r0 \o <<",">> ELSE r0
           r2 == r1 \o micron_to_string(grids[i])
       IN  IF ~coord_equals(grids[i], default_grid) THEN r2 \o <<"!">> ELSE r2

\* The loop of set_default_grid_list2 putting each value in front of the
\* string built so far.
RECURSIVE grid_list_string_reversed(_, _, _)
grid_list_string_reversed(grids, default_grid, i) ==
  IF i = 0 THEN <<>>
  ELSE LET r0 == grid_list_string_reversed(grids, default_grid, i - 1)
           r1 == IF r0 # <<>> THEN <<",">> \o r0 ELSE r0
           r2 == IF coord_equals(grids[i], default_grid) THEN <<"!">> ELSE <<>>
       IN  micron_to_string(grids[i]) \o r2 \o r1

\* The loop of set_default_grid_list2 appending the marker before the value
\* instead of after it.
RECURSIVE grid_list_string_marker_first(_, _, _)
grid_list_string_marker_first(grids, default_grid, i) ==
  IF i = 0 THEN <<>>
  ELSE LET r0 == grid_list_string_marker_first(grids, default_grid, i - 1)
           r1 == IF r0 # <<>> THEN r0 \o <<",">> ELSE r0
           r2 == IF coord_equals(grids[i], default_grid) THEN r1 \o <<"!">> ELSE r1
       IN  r2 \o micron_to_string(grids[i])

\* The string r of set_default_grid_list2 after the first i loop rounds
\* (lines 141-150).
RECURSIVE grid_list_string(_, _, _)
grid_list_string(grids, default_grid, i) ==
  IF i = 0 THEN <<>>
  ELSE LET r0 == grid_list_string(grids, default_grid, i - 1)
           r1 == IF r0 # <<>> THEN r0 \o <<",">> ELSE r0
           r2 == r1 \o micron_to_string(grids[i])
       IN  IF coord_equals(grids[i], default_grid) THEN r2 \o <<"!">> ELSE r2

\* set_default_grid_list2 (lines 138-152): the record after the call.
set_default_grid_list2(tech, grids, default_grid) ==
  Technology_set_default_grids(tech, grid_list_string(grids, default_grid, Len(grids)))

\* set_default_grid_list leaving a record alone that has a default grid.
set_default_grid_list_keep(tech, grids) ==
  IF \E i \in 1 .. Len(tech.default_grids) : tech.default_grids[i] = "!"
    THEN tech
    ELSE set_default_grid_list2(tech, grids, 0)

\* set_default_grid_list passing the first grid as the default grid.
set_default_grid_list_first(tech, grids) ==
  set_default_grid_list2(tech, grids, IF grids = <<>> THEN 0 ELSE grids[1])

\* set_default_grid_list (lines 154-158)
set_default_grid_list(tech, grids) == set_default_grid_list2(tech, grids, 0)

\* TRUE iff the text holds a default marker.
HasMarker(text) == \E i \in 1 .. Len(text) : text[i] = "!"

\* ------------------------------------------------------------------ XML codec

\* An XML string is a sequence of tokens: the tags, and between them the
\* characters of the element texts.
OpenTag(n) == "<" \o n \o ">"
CloseTag(n) == "</" \o n \o ">"

\* db::Technology::xml_elements: the element of each field.
xml_elements ==
  << [name |-> "name", field |-> "name"],
     [name |-> "description", field |-> "description"],
     [name |-> "group", field |-> "group"],
     [name |-> "dbu", field |-> "dbu"],
     [name |-> "base-path", field |-> "explicit_base_path"],
     [name |-> "default-grids", field |-> "default_grids"] >>

\* The characters of a string value of the model (all have at most one).
Chars(str) == IF str = "" THEN <<>> ELSE <<str>>

\* The string made of the characters cs.
RECURSIVE Str(_)
Str(cs) == IF cs = <<>> THEN "" ELSE cs[1] \o Str(Tail(cs))

\* The number a string of digits denotes.
RECURSIVE Number(_)
Number(cs) ==
  IF cs = <<>> THEN 0
  ELSE 10 * Number(SubSeq(cs, 1, Len(cs) - 1))
         + (CHOOSE d \in 0 .. 9 : Digit(d) = cs[Len(cs)])

IsDigit(c) == \E d \in 0 .. 9 : Digit(d) = c

\* The text the writer prints for a field, before escaping.
FieldText(tech, f) ==
  IF f = "dbu" THEN Digits(tech.dbu)
  ELSE IF f = "default_grids" THEN tech.default_grids
  ELSE Chars(tech[f])

\* TRUE iff text can be read into field f.
FieldTextOk(f, text) ==
  f = "dbu" => (text # <<>> /\ \A i \in 1 .. Len(text) : IsDigit(text[i]))

\* The record with field f read from text.
WithField(tech, f, text) ==
  IF f = "dbu" THEN [tech EXCEPT !.dbu = Number(text)]
  ELSE IF f = "default_grids" THEN [tech EXCEPT !.default_grids = text]
  ELSE [tech EXCEPT ![f] = Str(text)]

\* tl::XMLWriter: "<" and "&" are written as entities.
RECURSIVE Escape(_)
Escape(cs) ==
  IF cs = <<>> THEN <<>>
  ELSE (IF cs[1] = "<" THEN <<"&", "l", "t", ";">>
        ELSE IF cs[1] = "&" THEN <<"&", "a", "m", "p", ";">>
        ELSE <<cs[1]>>) \o Escape(Tail(cs))

\* tl::XMLParser: the characters of an element text; ok is FALSE for a text
\* that holds a tag, a bare "<" or an unknown entity.
RECURSIVE Unescape(_)
Unescape(cs) ==
  IF cs = <<>> THEN [ok |-> TRUE, text |-> <<>>]
  ELSE IF Len(cs[1]) # 1 \/ cs[1] = "<" THEN [ok |-> FALSE, text |-> <<>>]
  ELSE IF cs[1] = "&"
    THEN IF Len(cs) >= 4 /\ SubSeq(cs, 1, 4) = <<"&", "l", "t", ";">>
           THEN LET r == Unescape(SubSeq(cs, 5, Len(cs)))
                IN  [ok |-> r.ok, text |-> <<"<">> \o r.text]
         ELSE IF Len(cs) >= 5 /\ SubSeq(cs, 1, 5) = <<"&", "a", "m", "p", ";">>
           THEN LET r == Unescape(SubSeq(cs, 6, Len(cs)))
                IN  [ok |-> r.ok, text |-> <<"&">> \o r.text]
         ELSE [ok |-> FALSE, text |-> <<>>]
  ELSE LET r == Unescape(Tail(cs))
       IN  [ok |-> r.ok, text |-> <<cs[1]>> \o r.text]

\* The elements of the record, from the i-th of the table on.
RECURSIVE WriteElements(_, _, _)
WriteElements(elements, tech, i) ==
  IF i > Len(elements) THEN <<>>
  ELSE <<OpenTag(elements[i].name)>>
         \o Escape(FieldText(tech, elements[i].field))
         \o <<CloseTag(elements[i].name)>>
         \o WriteElements(elements, tech, i + 1)

\* tl::XMLStruct<db::Technology>::write
XMLStruct_write(root, elements, tech) ==
  <<OpenTag(root)>> \o WriteElements(elements, tech, 1) \o <<CloseTag(root)>>

\* The record after reading the elements toks into tech; err for an element
\* that is not in the table, is not closed or has a text that cannot be read.
RECURSIVE ParseElements(_, _, _)
ParseElements(elements, toks, tech) ==
  IF toks = <<>> THEN [err |-> FALSE, tech |-> tech]
  ELSE IF ~\E e \in 1 .. Len(elements) : toks[1] = OpenTag(elements[e].name)
    THEN [err |-> TRUE, tech |-> tech]
  ELSE LET e == CHOOSE e \in 1 .. Len(elements) : toks[1] = OpenTag(elements[e].name)
           closed == \E k \in 2 .. Len(toks) : toks[k] = CloseTag(elements[e].name)
           k == CHOOSE k \in 2 .. Len(toks) :
                  /\ toks[k] = CloseTag(elements[e].name)
                  /\ \A j \in 2 .. (k - 1) : toks[j] # CloseTag(elements[e].name)
       IN  IF ~closed THEN [err |-> TRUE, tech |-> tech]
           ELSE LET u == Unescape(SubSeq(toks, 2, k - 1))
                IN  IF ~u.ok \/ ~FieldTextOk(elements[e].field, u.text)
                      THEN [err |-> TRUE, tech |-> tech]
                      ELSE ParseElements(elements, SubSeq(toks, k + 1, Len(toks)),
                                         WithField(tech, elements[e].field, u.text))

\* tl::XMLStruct<db::Technology>::parse: reads the document into tech; a
\* document that is not one root element of the given name is an error.
XMLStruct_parse(root, elements, source, tech) ==
  IF Len(source) < 2 \/ source[1] # OpenTag(root) \/ source[Len(source)] # CloseTag(root)
    THEN [err |-> TRUE, tech |-> tech]
    ELSE ParseElements(elements, SubSeq(source, 2, Len(source) - 1), tech)

\* technology_from_xml reading a document with the root element
\* "technologies".
technology_from_xml_other_root(str) ==
  XMLStruct_parse("technologies", xml_elements, str, DefaultTechnology)

\* lines 83-90: the parse error, or the record read
technology_from_xml(str) ==
  XMLStruct_parse("technology", xml_elements, str, DefaultTechnology)

\* technology_to_xml with the test of line 94 the wrong way round.
technology_to_xml_inverted(o, t) ==
  IF t # Null
    THEN [err |-> FALSE, xml |-> <<>>]
    ELSE [err |-> TRUE, xml |-> <<>>]

\* lines 92-103: the string returned for the record t refers to
technology_to_xml(o, t) ==
  IF t = Null
    THEN [err |-> FALSE, xml |-> <<>>]
    ELSE [err |-> FALSE, xml |-> XMLStruct_write("technology", xml_elements, o[t])]

\* ------------------------------------------------------------------ actions

\* What the last call was: its name, its arguments, whether it raised an
\* error, the boolean it returned, whether the record a grid setter was
\* applied to carried a default marker before the call, and the XML string
\* it returned (to_xml) or was given (technology_from_xml).
NoCall ==
  [op |-> "", name |-> "", target |-> Null, err |-> FALSE, res |-> FALSE,
   grids |-> <<>>, dg |-> 0, had_default |-> FALSE, xml |-> <<>>]

\* The objects the script can call a method on: its own object and the
\* stored record it holds a reference to.
Targets == {OwnId} \cup (IF Live(ref) THEN {ref} ELSE {})

\* technology_by_name falling back to the first registered record when the
\* name is not found.
technology_by_name_fallback(n) ==
  /\ ref' = IF Technologies_has_technology(registry, objs, n)
              THEN Technologies_technology_by_name(registry, objs, n)
              ELSE IF Len(registry) > 0 THEN registry[1] ELSE Null
  /\ last' = [NoCall EXCEPT !.op = "technology_by_name", !.name = n]
  /\ UNCHANGED <<objs, registry, attr, qvars>>

\* lines 41-44
technology_by_name(n) ==
  /\ ref' = Technologies_technology_by_name(registry, objs, n)
  /\ last' = [NoCall EXCEPT !.op = "technology_by_name", !.name = n]
  /\ UNCHANGED <<objs, registry, attr, qvars>>

\* lines 63-66
has_technology(n) ==
  /\ last' = [NoCall EXCEPT !.op = "has_technology", !.name = n,
                            !.res = Technologies_has_technology(registry, objs, n)]
  /\ UNCHANGED <<objs, registry, ref, attr, qvars>>

\* create_technology without the set_name call of line 49.
create_technology_unnamed(n) ==
  /\ Technologies_has_technology(registry, objs, "") \/ Len(registry) < MaxTechs
  /\ LET r == Technologies_add_new(registry, objs, DefaultTechnology)
     IN
      /\ registry' = r.reg
      /\ objs' = r.objs
      /\ ref' = IF r.err THEN ref ELSE r.id
      /\ last' = [NoCall EXCEPT !.op = "create_technology", !.name = n, !.err = r.err]
      /\ UNCHANGED <<attr, qvars>>

\* create_technology putting a fresh record in the place of a registered
\* record of the name instead of failing.
create_technology_replace(n) ==
  /\ Technologies_has_technology(registry, objs, n) \/ Len(registry) < MaxTechs
  /\ LET tech == Technology_set_name(DefaultTechnology, n)
         r == Technologies_add_new(registry, objs, tech)
         old == Technologies_technology_by_name(registry, objs, n)
     IN
      /\ registry' = r.reg
      /\ objs' = IF r.err THEN [objs EXCEPT ![old] = tech] ELSE r.objs
      /\ ref' = IF r.err THEN old ELSE r.id
      /\ last' = [NoCall EXCEPT !.op = "create_technology", !.name = n]
      /\ UNCHANGED <<attr, qvars>>

\* lines 46-51
create_technology(n) ==
  /\ Technologies_has_technology(registry, objs, n) \/ Len(registry) < MaxTechs
  /\ LET tech == Technology_set_name(DefaultTechnology, n)
         r == Technologies_add_new(registry, objs, tech)
     IN
      /\ registry' = r.reg
      /\ objs' = r.objs
      /\ ref' = IF r.err THEN ref ELSE r.id
      /\ last' = [NoCall EXCEPT !.op = "create_technology", !.name = n, !.err = r.err]
      /\ UNCHANGED <<attr, qvars>>

\* register_technology replacing a record of the same name instead of
\* failing.
register_technology_replace(t) ==
  /\ Technologies_has_technology(registry, objs, objs[t].name) \/ Len(registry) < MaxTechs
  /\ LET r == Technologies_add_new(registry, objs, objs[t])
         old == Technologies_technology_by_name(registry, objs, objs[t].name)
     IN
      /\ registry' = r.reg
      /\ objs' = IF r.err THEN [objs EXCEPT ![old] = objs[t]] ELSE r.objs
      /\ ref' = IF r.err THEN old ELSE r.id
      /\ last' = [NoCall EXCEPT !.op = "register_technology", !.name = objs[t].name,
                                !.target = t]
      /\ UNCHANGED <<attr, qvars>>

\* register_technology storing the caller's object itself instead of a copy.
register_technology_alias(t) ==
  /\ Technologies_has_technology(registry, objs, objs[t].name) \/ Len(registry) < MaxTechs
  /\ LET err == Technologies_has_technology(registry, objs, objs[t].name)
     IN
      /\ registry' = IF err THEN registry ELSE Append(registry, t)
      /\ objs' = objs
      /\ ref' = IF err THEN ref ELSE t
      /\ last' = [NoCall EXCEPT !.op = "register_technology", !.name = objs[t].name,
                                !.target = t, !.err = err]
      /\ UNCHANGED <<attr, qvars>>

\* lines 53-56
register_technology(t) ==
  /\ Technologies_has_technology(registry, objs, objs[t].name) \/ Len(registry) < MaxTechs
  /\ LET r == Technologies_add_new(registry, objs, objs[t])
     IN
      /\ registry' = r.reg
      /\ objs' = r.objs
      /\ ref' = IF r.err THEN ref ELSE r.id
      /\ last' = [NoCall EXCEPT !.op = "register_technology", !.name = objs[t].name,
                                !.target = t, !.err = r.err]
      /\ UNCHANGED <<attr, qvars>>

\* lines 58-61.  What the registry does for a name it does not hold is not
\* fixed: it may raise an error or do nothing.
remove_technology(n) ==
  LET r == Technologies_remove(registry, objs, n)
  IN  /\ registry' = r.reg
      /\ objs' = r.objs
      /\ ref' = IF ref # Null /\ r.objs[ref] = Free THEN Null ELSE ref
      /\ \E e \in BOOLEAN :
           /\ e => ~Technologies_has_technology(registry, objs, n)
           /\ last' = [NoCall EXCEPT !.op = "remove_technology", !.name = n, !.err = e]
      /\ UNCHANGED <<attr, qvars>>

\* lines 78-81
clear_technologies ==
  LET r == Technologies_clear(registry, objs)
  IN  /\ registry' = r.reg
      /\ objs' = r.objs
      /\ ref' = Null
      /\ last' = [NoCall EXCEPT !.op = "clear_technologies"]
      /\ UNCHANGED <<attr, qvars>>

\* lines 73-76
technologies_from_xml(doc) ==
  LET r == Technologies_load_from_xml(registry, objs, doc)
  IN  /\ registry' = r.reg
      /\ objs' = r.objs
      /\ ref' = IF r.err THEN ref ELSE Null
      /\ last' = [NoCall EXCEPT !.op = "technologies_from_xml", !.err = r.err]
      /\ UNCHANGED <<attr, qvars>>

\* A setter of the record called on object t.
SetterCall(op, t, tech) ==
  /\ objs' = [objs EXCEPT ![t] = tech]
  /\ last' = [NoCall EXCEPT !.op = op, !.target = t]
  /\ UNCHANGED <<registry, ref, attr, qvars>>

\* "name=" (lines 164-166)
name_set(t, n) == SetterCall("name=", t, Technology_set_name(objs[t], n))

\* "description=" (lines 218-220)
description_set(t, d) ==
  /\ attr = "description"
  /\ SetterCall("description=", t, Technology_set_description(objs[t], d))

\* "group=" (lines 229-234)
group_set(t, g) ==
  /\ attr = "group"
  /\ SetterCall("group=", t, Technology_set_group(objs[t], g))

\* "dbu=" (lines 240-242)
dbu_set(t, d) ==
  /\ attr = "dbu"
  /\ SetterCall("dbu=", t, Technology_set_dbu(objs[t], d))

\* "explicit_base_path=" (lines 207-211)
explicit_base_path_set(t, p) ==
  /\ attr = "explicit_base_path"
  /\ SetterCall("explicit_base_path=", t, Technology_set_explicit_base_path(objs[t], p))

\* "default_grids=" (lines 261-268)
default_grids_set(t, grids) ==
  /\ attr = "default_grids"
  /\ objs' = [objs EXCEPT ![t] = set_default_grid_list(objs[t], grids)]
  /\ last' = [NoCall EXCEPT !.op = "default_grids=", !.target = t,
                            !.grids = grids,
                            !.had_default = HasMarker(objs[t].default_grids)]
  /\ UNCHANGED <<registry, ref, attr, qvars>>

\* "set_default_grids" (lines 269-275)
set_default_grids(t, grids, default_grid) ==
  /\ attr = "default_grids"
  /\ objs' = [objs EXCEPT ![t] = set_default_grid_list2(objs[t], grids, default_grid)]
  /\ last' = [NoCall EXCEPT !.op = "set_default_grids", !.target = t,
                            !.grids = grids, !.dg = default_grid,
                            !.had_default = HasMarker(objs[t].default_grids)]
  /\ UNCHANGED <<registry, ref, attr, qvars>>

\* "to_xml" (lines 380-384), on a record or on no record
to_xml(t) ==
  LET r == technology_to_xml(objs, t)
  IN  /\ last' = [NoCall EXCEPT !.op = "to_xml", !.target = t, !.err = r.err,
                                !.xml = r.xml]
      /\ UNCHANGED <<objs, registry, ref, attr, qvars>>

\* "technology_from_xml" adding the record it read to the registry.
Technology_technology_from_xml_registering(str) ==
  LET r == technology_from_xml(str)
      a == IF r.err \/ Len(registry) >= MaxTechs
             THEN [err |-> TRUE, reg |-> registry, objs |-> objs, id |-> Null]
             ELSE Technologies_add_new(registry, objs, r.tech)
  IN  /\ objs' = IF r.err THEN objs ELSE [a.objs EXCEPT ![OwnId] = r.tech]
      /\ registry' = a.reg
      /\ last' = [NoCall EXCEPT !.op = "technology_from_xml", !.err = r.err,
                                !.xml = str]
      /\ UNCHANGED <<ref, attr, qvars>>

\* "technology_from_xml" (lines 395-400): the record read becomes the
\* script's own object; a parse error leaves the script with what it had.
Technology_technology_from_xml(str) ==
  LET r == technology_from_xml(str)
  IN  /\ objs' = IF r.err THEN objs ELSE [objs EXCEPT ![OwnId] = r.tech]
      /\ last' = [NoCall EXCEPT !.op = "technology_from_xml", !.err = r.err,
                                !.xml = str]
      /\ UNCHANGED <<registry, ref, attr, qvars>>

\* ------------------------------------------------------ QHoverEvent_Adaptor

\* The overridable methods (methods_QHoverEvent_Adaptor).
Methods == {"isBeginEvent", "isEndEvent", "isUpdateEvent", "setAccepted", "setTimestamp"}

\* The methods that return a bool; the other two return nothing.
Predicates == {"isBeginEvent", "isEndEvent", "isUpdateEvent"}

\* The values passed to and returned by the methods, as the script writes
\* them: no argument or no return value, the bool values, the time stamps.
Void == "void"
Bools == {"false", "true"}
Timestamps == {"0", "7"}

ArgsOf(m) ==
  IF m = "setAccepted" THEN Bools
  ELSE IF m = "setTimestamp" THEN Timestamps
  ELSE {Void}

RetsOf(m) == IF m \in Predicates THEN Bools ELSE {Void}

\* The QHoverEvent part of the object: what its three predicates answer,
\* the accepted flag and the time stamp.
Events ==
  [isBeginEvent : Bools, isEndEvent : Bools, isUpdateEvent : Bools,
   accepted : Bools, timestamp : Timestamps]

\* QHoverEvent::m (arg): the event after the call and the value returned.
QHoverEvent(m, e, arg) ==
  IF m = "setAccepted" THEN [event |-> [e EXCEPT !.accepted = arg], ret |-> Void]
  ELSE IF m = "setTimestamp" THEN [event |-> [e EXCEPT !.timestamp = arg], ret |-> Void]
  ELSE [event |-> e, ret |-> e[m]]

\* The record of a call: the operation that started it (op) and its last
\* step, the method and the argument, which of the two implementations the
\* virtual method has run, how often the script callback and QHoverEvent
\* have run, the arguments they got and the values they returned, the
\* method of the last cbs_ call, the value returned to the caller, and
\* whether the call has returned.
NoHoverCall ==
  [op |-> "", step |-> "", method |-> "", arg |-> Void,
   via_cb |-> FALSE, via_base |-> FALSE, cb_runs |-> 0, base_runs |-> 0,
   cb_arg |-> Void, base_arg |-> Void, cb_ret |-> Void, base_ret |-> Void,
   cbs_calls |-> 0, cbs_method |-> "", ret |-> Void, done |-> FALSE]

\* The state a call works on.
HoverState == [event |-> event, frames |-> frames, call |-> call]

\* The event of the specifications that make no call on it.
DefaultEvent ==
  [isBeginEvent |-> "false", isEndEvent |-> "false", isUpdateEvent |-> "true",
   accepted |-> "false", timestamp |-> "0"]

\* A call of QHoverEvent::m in the state s.
RunBase(s, m, arg) ==
  LET b == QHoverEvent(m, s.event, arg)
  IN  [s EXCEPT !.event = b.event,
                !.call.base_runs = @ + 1,
                !.call.base_arg = arg,
                !.call.base_ret = b.ret]

\* The virtual methods without the can_issue test: always QHoverEvent.
Virtual_base_only(s, m, arg) ==
  LET r == RunBase(s, m, arg)
  IN  [r EXCEPT !.call.via_base = TRUE,
                !.call.ret = r.call.base_ret,
                !.call.done = (s.frames = <<>>)]

\* The virtual methods isBeginEvent, isEndEvent, isUpdateEvent, setAccepted,
\* setTimestamp (lines 172-179, 187-194, 202-209, 217-224, 232-239): with a
\* callback that can issue the script callback starts running with the
\* argument; without, QHoverEvent::m runs and its value is returned.
Virtual(s, m, arg) ==
  IF cb[m]
    THEN [s EXCEPT !.frames = Append(@, [method |-> m, arg |-> arg, cbs_calls |-> 0]),
                   !.call.via_cb = TRUE,
                   !.call.cb_runs = @ + 1,
                   !.call.cb_arg = arg]
    ELSE LET r == RunBase(s, m, arg)
         IN  [r EXCEPT !.call.via_base = TRUE,
                       !.call.ret = r.call.base_ret,
                       !.call.done = (s.frames = <<>>)]

\* The cbs_ functions calling the virtual method of the object instead of
\* the one of QHoverEvent.
cbs_virtual(s, m, arg) == Virtual(s, m, arg)

\* cbs_isBeginEvent_c0_0, cbs_isEndEvent_c0_0, cbs_isUpdateEvent_c0_0,
\* cbs_setAccepted_864_0, cbs_setTimestamp_1103_0 (lines 167-170, 182-185,
\* 197-200, 212-215, 227-230)
cbs(s, m, arg) == RunBase(s, m, arg)

\* _set_callback_cbs_* (lines 294-297 and the like): the binding installs
\* the callback of method m; can_issue tells whether the script implements
\* the method.
set_callback_cbs(m, can_issue) ==
  /\ frames = <<>>
  /\ cb' = [cb EXCEPT ![m] = can_issue]
  /\ call' = [NoHoverCall EXCEPT !.op = "_set_callback_cbs", !.step = "_set_callback_cbs",
                                 !.method = m, !.done = TRUE]
  /\ UNCHANGED <<event, frames, tvars>>

\* The toolkit calls the virtual method m of the object.
VirtualCall(m, arg) ==
  /\ frames = <<>>
  /\ LET s == [HoverState EXCEPT
                 !.call = [NoHoverCall EXCEPT !.op = "virtual", !.step = "virtual",
                                              !.method = m, !.arg = arg]]
         r == Virtual(s, m, arg)
     IN  /\ event' = r.event
         /\ frames' = r.frames
         /\ call' = r.call
  /\ UNCHANGED <<cb, tvars>>

\* _call_cbs_* (lines 288-292 and the like): the script calls method m of
\* the object, from its callback (the inherited method) or while no
\* callback runs; the argument goes to the cbs_ function and its value is
\* returned to the script.
call_cbs(m, arg) ==
  /\ frames # <<>> => frames[Len(frames)].cbs_calls < MaxCbsCalls
  /\ LET inside == frames # <<>>
         s == [event |-> event,
               frames |-> IF inside
                            THEN [frames EXCEPT ![Len(frames)].cbs_calls = @ + 1]
                            ELSE frames,
               call |-> IF inside
                          THEN [call EXCEPT !.step = "_call_cbs", !.cbs_calls = @ + 1,
                                            !.cbs_method = m]
                          ELSE [NoHoverCall EXCEPT !.op = "_call_cbs", !.step = "_call_cbs",
                                                   !.method = m, !.arg = arg,
                                                   !.cbs_calls = 1, !.cbs_method = m]]
         r == cbs(s, m, arg)
     IN  /\ event' = r.event
         /\ frames' = r.frames
         /\ call' = IF inside THEN r.call
                    ELSE [r.call EXCEPT !.ret = r.call.base_ret,
                                        !.done = (r.frames = <<>>)]
  /\ UNCHANGED <<cb, tvars>>

\* The script callback returns v: cb.issue returns, and the virtual method
\* returns that value to its caller (lines 175, 190, 205, 220, 235).
CallbackReturn(v) ==
  /\ frames # <<>>
  /\ v \in RetsOf(frames[Len(frames)].method)
  /\ frames' = SubSeq(frames, 1, Len(frames) - 1)
  /\ call' = [call EXCEPT !.step = "return", !.cb_ret = v, !.ret = v,
                          !.done = (Len(frames) = 1)]
  /\ UNCHANGED <<cb, event, tvars>>

\* ----------------------------------------------------------- specifications

InitObjs == [id \in {OwnId} \cup RegIds |-> IF id = OwnId THEN DefaultTechnology ELSE Free]

\* The registry functions, with the name and the description of the records.
Init ==
  /\ objs = InitObjs
  /\ registry = <<>>
  /\ ref = Null
  /\ last = NoCall
  /\ attr = "description"
  /\ cb = [m \in Methods |-> FALSE]
  /\ event = DefaultEvent
  /\ frames = <<>>
  /\ call = NoHoverCall

Next ==
  \/ \E n \in Names : technology_by_name(n)
  \/ \E n \in Names : has_technology(n)
  \/ \E n \in Names : create_technology(n)
  \/ \E t \in Targets : register_technology(t)
  \/ \E n \in Names : remove_technology(n)
  \/ clear_technologies
  \/ \E doc \in Docs : technologies_from_xml(doc)
  \/ \E t \in Targets, n \in Names : name_set(t, n)
  \/ \E t \in Targets, d \in {"", "d"} : description_set(t, d)

Spec == Init /\ [][Next]_vars

\* Registration and the setters of the record: the script registers its own
\* object and then works on the name and on one further attribute (attr) of
\* its own object and of the stored record.
InitCopy ==
  /\ objs = InitObjs
  /\ registry = <<>>
  /\ ref = Null
  /\ last = NoCall
  /\ attr \in Attrs
  /\ cb = [m \in Methods |-> FALSE]
  /\ event = DefaultEvent
  /\ frames = <<>>
  /\ call = NoHoverCall

NextCopy ==
  \/ \E t \in Targets : register_technology(t)
  \/ \E n \in Names : technology_by_name(n)
  \/ clear_technologies
  \/ \E t \in Targets, n \in Names : name_set(t, n)
  \/ \E t \in Targets, d \in {"", "d"} : description_set(t, d)
  \/ \E t \in Targets, g \in {"", "g"} : group_set(t, g)
  \/ \E t \in Targets, d \in {1, 5} : dbu_set(t, d)
  \/ \E t \in Targets, p \in {"", "p"} : explicit_base_path_set(t, p)
  \/ \E t \in Targets, grids \in {<<>>, <<Prec>>} : default_grids_set(t, grids)

SpecCopy == InitCopy /\ [][NextCopy]_vars

\* The grid list setters applied to one record, over all grid lists and
\* default grids within the bounds.
InitGrid ==
  /\ objs = InitObjs
  /\ registry = <<>>
  /\ ref = Null
  /\ last = NoCall
  /\ attr = "default_grids"
  /\ cb = [m \in Methods |-> FALSE]
  /\ event = DefaultEvent
  /\ frames = <<>>
  /\ call = NoHoverCall

NextGrid ==
  \/ \E grids \in GridLists : default_grids_set(OwnId, grids)
  \/ \E grids \in GridLists, dg \in GridValues : set_default_grids(OwnId, grids, dg)

SpecGrid == InitGrid /\ [][NextGrid]_vars

\* Documents given to technology_from_xml besides the ones to_xml returned:
\* the empty string, an unclosed root, a root without elements, a name
\* alone, another root element, an unknown element, an unknown entity, a dbu
\* that is not a number.
XmlInputs ==
  { <<>>,
    <<"<technology>">>,
    <<"<technology>", "</technology>">>,
    <<"<technology>", "<name>", "A", "</name>", "</technology>">>,
    <<"<technologies>", "</technologies>">>,
    <<"<technology>", "<colour>", "</colour>", "</technology>">>,
    <<"<technology>", "<group>", "&", "g", "</group>", "</technology>">>,
    <<"<technology>", "<dbu>", "d", "</dbu>", "</technology>">> }

\* The XML export and import of a record: the script sets the name and one
\* further attribute (attr) of its own object, registers it, exports its own
\* object, the stored record or no record, and imports a document.
InitXml ==
  /\ objs = InitObjs
  /\ registry = <<>>
  /\ ref = Null
  /\ last = NoCall
  /\ attr \in Attrs
  /\ cb = [m \in Methods |-> FALSE]
  /\ event = DefaultEvent
  /\ frames = <<>>
  /\ call = NoHoverCall

NextXml ==
  \/ \E t \in Targets \cup {Null} : to_xml(t)
  \/ \E str \in XmlInputs \cup {last.xml} : Technology_technology_from_xml(str)
  \/ register_technology(OwnId)
  \/ \E n \in Names : name_set(OwnId, n)
  \/ \E d \in {"", "d", "<", "&"} : description_set(OwnId, d)
  \/ \E g \in {"", "g", "&"} : group_set(OwnId, g)
  \/ \E d \in {1, 12} : dbu_set(OwnId, d)
  \/ \E p \in {"", "p", "<"} : explicit_base_path_set(OwnId, p)
  \/ \E grids \in {<<>>, <<0, Prec>>} : default_grids_set(OwnId, grids)

SpecXml == InitXml /\ [][NextXml]_vars

\* The adaptor object in the hands of the toolkit, which calls its virtual
\* methods, and of the script, which installs callbacks, calls the methods
\* and answers the callbacks.
InitHover ==
  /\ objs = InitObjs
  /\ registry = <<>>
  /\ ref = Null
  /\ last = NoCall
  /\ attr = "description"
  /\ cb = [m \in Methods |-> FALSE]
  /\ event \in {e \in Events : e.accepted = "false" /\ e.timestamp = "0"}
  /\ frames = <<>>
  /\ call = NoHoverCall

NextHover ==
  \/ \E m \in Methods, can_issue \in BOOLEAN : set_callback_cbs(m, can_issue)
  \/ \E m \in Methods : \E arg \in ArgsOf(m) : VirtualCall(m, arg)
  \/ \E m \in Methods : \E arg \in ArgsOf(m) : call_cbs(m, arg)
  \/ \E v \in Bools \cup {Void} : CallbackReturn(v)

SpecHover == InitHover /\ [][NextHover]_vars

TypeOK ==
  /\ ref \in {Null} \cup RegIds
  /\ Len(registry) <= MaxTechs
  /\ \A i \in 1 .. Len(registry) : objs[registry[i]] # Free

\* ------------------------------------------------------------------- claims

\* The records stored in the registry, in registry order.
Stored(reg, o) == [i \in 1 .. Len(reg) |-> o[reg[i]]]

SetterOps ==
  {"name=", "description=", "group=", "dbu=", "explicit_base_path=",
   "default_grids=", "set_default_grids"}

\* The comma-separated entries of a grid list text.
RECURSIVE Entries(_)
Entries(text) ==
  IF text = <<>> THEN <<>>
  ELSE LET k == IF \E i \in 1 .. Len(text) : text[i] = ","
                  THEN CHOOSE i \in 1 .. Len(text) :
                         text[i] = "," /\ \A j \in 1 .. (i - 1) : text[j] # ","
                  ELSE Len(text) + 1
       IN  <<SubSeq(text, 1, k - 1)>> \o
           (IF k > Len(text) THEN <<>> ELSE Entries(SubSeq(text, k + 1, Len(text))))

\* An entry carries the default marker when it ends in "!".
Marked(e) == e # <<>> /\ e[Len(e)] = "!"

\* The value text of an entry: the entry without its marker.
ValueText(e) == IF Marked(e) THEN SubSeq(e, 1, Len(e) - 1) ELSE e

\* The grid list text of the record the last call was applied to.
LastText == objs[last.target].default_grids

\* C1: register_technology of a record whose name is already registered
\* raises an error and leaves the registry, its names and every field of
\* every stored record as they were.
C1_RegisterCollisionFails ==
  [][(/\ last'.op = "register_technology"
      /\ Technologies_has_technology(registry, objs, last'.name))
     => (/\ last'.err
         /\ registry' = registry
         /\ technology_names(registry', objs') = technology_names(registry, objs)
         /\ Stored(registry', objs') = Stored(registry, objs))]_vars

\* A failed registration of the script's object, which differs from the
\* stored record of its name.
C1_Witness ==
  /\ last.op = "register_technology"
  /\ last.err
  /\ last.target = OwnId
  /\ Technologies_has_technology(registry, objs, objs[OwnId].name)
  /\ objs[Technologies_technology_by_name(registry, objs, objs[OwnId].name)] # objs[OwnId]

\* C2: a successful register_technology(r) returns a reference to a new
\* stored object that holds a copy of r; a later setter called on r leaves
\* the registry and every stored record unchanged, and a setter called on
\* the stored record leaves r unchanged.
C2_RegistryOwnsCopy ==
  /\ [](last.op = "register_technology" /\ ~last.err
        => /\ Live(ref)
           /\ ref # last.target
           /\ registry[Len(registry)] = ref
           /\ objs[ref] = objs[last.target])
  /\ [][last'.op \in SetterOps /\ last'.target = OwnId
        => /\ registry' = registry
           /\ Stored(registry', objs') = Stored(registry, objs)]_vars
  /\ [][last'.op \in SetterOps /\ last'.target # OwnId
        => objs'[OwnId] = objs[OwnId]]_vars

\* The script's object was registered and then changed: it now differs
\* from the stored record in the name or in the attribute worked on.
C2_Witness ==
  /\ last.op \in SetterOps
  /\ last.target = OwnId
  /\ Live(ref)
  /\ ref # OwnId
  /\ objs[ref] # objs[OwnId]
  /\ objs[ref][attr] # objs[OwnId][attr]

\* C3: no two records of the registry have the same name.
C3_NamesUnique ==
  \A i, j \in 1 .. Len(registry) :
    objs[registry[i]].name = objs[registry[j]].name => i = j

\* C4: after create_technology(X) for an unregistered X, X is registered,
\* technology_by_name(X) is a live record named X, X is among the names and
\* the returned reference is that stored record.
C4_CreateRegisters ==
  [][(/\ last'.op = "create_technology"
      /\ ~Technologies_has_technology(registry, objs, last'.name))
     => (/\ ~last'.err
         /\ Technologies_has_technology(registry', objs', last'.name)
         /\ Technologies_technology_by_name(registry', objs', last'.name) # Null
         /\ objs'[Technologies_technology_by_name(registry', objs', last'.name)].name
              = last'.name
         /\ \E i \in 1 .. Len(registry') :
              technology_names(registry', objs')[i] = last'.name
         /\ ref' = Technologies_technology_by_name(registry', objs', last'.name)
         /\ \E i \in 1 .. Len(registry') : registry'[i] = ref')]_vars

\* A technology was created next to another registered one.
C4_Witness ==
  /\ last.op = "create_technology"
  /\ ~last.err
  /\ Len(registry) >= 2
  /\ objs[ref].name = last.name

\* C5: after remove_technology(X) for a registered X, X is not registered
\* and every other registered name still is; after clear_technologies the
\* list of names is empty.
C5_RemoveAndClear ==
  [][/\ (/\ last'.op = "remove_technology"
         /\ Technologies_has_technology(registry, objs, last'.name))
        => (/\ ~Technologies_has_technology(registry', objs', last'.name)
            /\ \A n \in Names \cup {""} :
                 (n # last'.name /\ Technologies_has_technology(registry, objs, n))
                   => Technologies_has_technology(registry', objs', n))
     /\ last'.op = "clear_technologies"
        => technology_names(registry', objs') = <<>>]_vars

\* C6: technology_by_name(X) for an unregistered X returns nil without an
\* error and changes neither the registry nor any record; has_technology
\* answers TRUE exactly for the names technology_by_name finds.
C6_LookupMissReturnsNull ==
  /\ [][(/\ last'.op = "technology_by_name"
         /\ ~Technologies_has_technology(registry, objs, last'.name))
        => (/\ ref' = Null
            /\ ~last'.err
            /\ registry' = registry
            /\ objs' = objs)]_vars
  /\ [][last'.op = "technology_by_name"
        => (ref' # Null <=> Technologies_has_technology(registry, objs, last'.name))]_vars
  /\ [](last.op = "has_technology"
        => last.res = (\E i \in 1 .. Len(registry) : objs[registry[i]].name = last.name))

\* A lookup that found nothing in a registry that is not empty.
C6_Witness ==
  /\ last.op = "technology_by_name"
  /\ ref = Null
  /\ Len(registry) > 0
  /\ ~Technologies_has_technology(registry, objs, last.name)

\* C7: the text set_default_grids(grids, default_grid) stores has one entry
\* per grid; the i-th entry is the text of grids[i] followed by "!" if
\* grids[i] equals default_grid under the coordinate comparison, and the
\* bare text of grids[i] otherwise; no error is raised.
C7_MarkerIffEqual ==
  last.op = "set_default_grids"
    => /\ ~last.err
       /\ Len(Entries(LastText)) = Len(last.grids)
       /\ \A i \in 1 .. Len(last.grids) :
            /\ ValueText(Entries(LastText)[i]) = micron_to_string(last.grids[i])
            /\ Marked(Entries(LastText)[i]) <=> coord_equals(last.grids[i], last.dg)

\* A list with an entry that is marked although it differs from the
\* default grid (it is equal within the precision), and an unmarked entry.
C7_Witness ==
  /\ last.op = "set_default_grids"
  /\ \E i, j \in 1 .. Len(last.grids) :
       /\ Marked(Entries(LastText)[i])
       /\ last.grids[i] # last.dg
       /\ ~Marked(Entries(LastText)[j])

\* The last call was one of the two grid list setters.
GridSetterCall == last.op \in {"set_default_grids", "default_grids="}

\* The entries of the stored text that carry the marker.
MarkedEntries == {i \in 1 .. Len(Entries(LastText)) : Marked(Entries(LastText)[i])}

\* C8 as stated: after either grid list setter at most one entry of the
\* stored text is marked, and a marked entry is the text of a value of the
\* list.
C8_AtMostOneMarked ==
  GridSetterCall
    => /\ Cardinality(MarkedEntries) <= 1
       /\ \A i \in MarkedEntries :
            \E j \in 1 .. Len(last.grids) :
              ValueText(Entries(LastText)[i]) = micron_to_string(last.grids[j])

\* C8 as amended: after either grid list setter a marked entry is the text
\* of a value of the list, and the marked entries are exactly the entries
\* whose value equals the default grid under the coordinate comparison: at
\* most one entry is marked if at most one value of the list equals it.
C8_MarkedAreEqualEntries ==
  GridSetterCall
    => /\ \A i \in MarkedEntries :
            \E j \in 1 .. Len(last.grids) :
              ValueText(Entries(LastText)[i]) = micron_to_string(last.grids[j])
       /\ MarkedEntries = {i \in 1 .. Len(last.grids) : coord_equals(last.grids[i], last.dg)}
       /\ Cardinality({i \in 1 .. Len(last.grids) : coord_equals(last.grids[i], last.dg)}) <= 1
            => Cardinality(MarkedEntries) <= 1

\* A list of two values, one of them the default grid and the other not
\* equal to it: exactly one entry is marked.
C8_Witness ==
  /\ last.op = "set_default_grids"
  /\ Len(last.grids) >= 2
  /\ \E i \in 1 .. Len(last.grids) : last.grids[i] = last.dg
  /\ \E i \in 1 .. Len(last.grids) : ~coord_equals(last.grids[i], last.dg)
  /\ Cardinality(MarkedEntries) = 1

\* C9: after default_grids=(grids) the stored text is the text
\* set_default_grids(grids, 0.0) stores, whatever the record held before,
\* and an entry is marked only if its value equals 0.0.
C9_SetterResetsDefault ==
  last.op = "default_grids="
    => /\ LastText = grid_list_string(last.grids, 0, Len(last.grids))
       /\ Len(Entries(LastText)) = Len(last.grids)
       /\ \A i \in 1 .. Len(last.grids) :
            Marked(Entries(LastText)[i]) => coord_equals(last.grids[i], 0)

\* The record had a default grid before default_grids= and has none after.
C9_Witness ==
  /\ last.op = "default_grids="
  /\ last.had_default
  /\ Len(last.grids) > 0
  /\ ~HasMarker(LastText)

\* The last call set a grid list without an explicit default grid.
NoExplicitDefault ==
  \/ last.op = "default_grids="
  \/ last.op = "set_default_grids" /\ last.dg = 0

C11_OrderAndCountKept ==
  GridSetterCall
    => /\ Len(Entries(LastText)) = Len(last.grids)
       /\ \A i \in 1 .. Len(last.grids) :
            ValueText(Entries(LastText)[i]) = micron_to_string(last.grids[i])
       /\ LastText # <<>> => LastText[Len(LastText)] # ","

\* A list in descending order whose two values have different texts.
C11_Witness ==
  /\ GridSetterCall
  /\ Len(last.grids) >= 2
  /\ last.grids[1] > last.grids[2]
  /\ micron_to_string(last.grids[1]) # micron_to_string(last.grids[2])
  /\ ValueText(Entries(LastText)[1]) = micron_to_string(last.grids[1])

\* TRUE iff t is a value text: digits, one ".", digits.
IsMicronText(t) ==
  /\ Cardinality({i \in 1 .. Len(t) : t[i] = "."}) = 1
  /\ \A i \in 1 .. Len(t) : t[i] = "." \/ IsDigit(t[i])
  /\ t[1] # "." /\ t[Len(t)] # "."

\* The grid value (in ticks) a value text <integer part>.<five digits>
\* denotes; -1 for a text that is no value text.
ParseMicron(t) ==
  IF ~IsMicronText(t) THEN -1
  ELSE LET dot == CHOOSE i \in 1 .. Len(t) : t[i] = "."
       IN  (Number(SubSeq(t, 1, dot - 1)) * 100000
              + Number(SubSeq(t, dot + 1, Len(t)))) * Prec

\* The (value, is-default) pairs read back from the stored text.
Reparsed ==
  [i \in 1 .. Len(Entries(LastText)) |->
     [value |-> ParseMicron(ValueText(Entries(LastText)[i])),
      is_default |-> Marked(Entries(LastText)[i])]]

\* The last call encoded a list of positive grids with a default grid that
\* is a value of the list.
PositiveWithDefaultPresent ==
  /\ last.op = "set_default_grids"
  /\ \A i \in 1 .. Len(last.grids) : last.grids[i] > 0
  /\ \E i \in 1 .. Len(last.grids) : last.grids[i] = last.dg

\* C12 as stated: re-parsing the text stored for a list of positive grids
\* and a default grid of the list gives back the values of the list, in
\* order, and flags exactly the entries equal to the default grid.
C12_RoundTripExact ==
  PositiveWithDefaultPresent
    => /\ Len(Reparsed) = Len(last.grids)
       /\ \A i \in 1 .. Len(last.grids) :
            /\ Reparsed[i].value = last.grids[i]
            /\ Reparsed[i].is_default <=> coord_equals(last.grids[i], last.dg)

\* C12 as amended: re-parsing gives back, in order, each value rounded to
\* five decimals of a micron, which equals the original value under the
\* coordinate comparison and is the original value if that has no further
\* decimals; the entries flagged are exactly those equal to the default
\* grid under the coordinate comparison.
C12_RoundTripRounded ==
  PositiveWithDefaultPresent
    => /\ Len(Reparsed) = Len(last.grids)
       /\ \A i \in 1 .. Len(last.grids) :
            /\ coord_equals(Reparsed[i].value, last.grids[i])
            /\ 2 * Abs(Reparsed[i].value - last.grids[i]) <= Prec
            /\ last.grids[i] % Prec = 0 => Reparsed[i].value = last.grids[i]
            /\ Reparsed[i].is_default <=> coord_equals(last.grids[i], last.dg)

\* A list of positive grids, one of them with decimals beyond the fifth
\* that is read back rounded, of which one is flagged and one is not.
C12_Witness ==
  /\ PositiveWithDefaultPresent
  /\ Len(last.grids) >= 2
  /\ \E i, j \in 1 .. Len(last.grids) :
       /\ last.grids[i] % Prec # 0
       /\ Reparsed[i].value # last.grids[i]
       /\ Reparsed[i].is_default
       /\ ~Reparsed[j].is_default

\* C13: to_xml on no record returns the empty string and raises no error;
\* to_xml on a record that has a name returns a string that is not empty.
C13_ToXmlOfNull ==
  last.op = "to_xml" =>
    /\ ~last.err
    /\ last.target = Null => last.xml = <<>>
    /\ (last.target # Null /\ objs[last.target].name # "") => last.xml # <<>>

\* to_xml was called on no record, after the script has registered a named
\* record it could have exported instead.
C13_Witness ==
  /\ last.op = "to_xml"
  /\ last.target = Null
  /\ Live(ref)
  /\ objs[OwnId].name # ""

\* C14: technology_from_xml of the string to_xml returned for a record reads
\* without error a record equal to that record in every field.
C14_RoundTrip ==
  [][(/\ last.op = "to_xml"
      /\ last.target # Null
      /\ last'.op = "technology_from_xml"
      /\ last'.xml = last.xml)
     => (~last'.err /\ objs'[OwnId] = objs[last.target])]_vars

\* technology_from_xml has read the export of a named record with a
\* character that is written as an entity, and the script holds the record
\* read.
C14_Witness ==
  /\ last.op = "technology_from_xml"
  /\ ~last.err
  /\ last.xml = technology_to_xml(objs, OwnId).xml
  /\ objs[OwnId].name # ""
  /\ \E i \in 1 .. Len(last.xml) : last.xml[i] = "&"

\* C15: technology_from_xml leaves the registered names and the stored
\* records as they were, for a document it reads and for one it rejects; a
\* document without elements gives the default record; the registry gets a
\* new record by register_technology only.
C15_FromXmlLeavesRegistry ==
  [][/\ last'.op = "technology_from_xml" =>
          /\ registry' = registry
          /\ Stored(registry', objs') = Stored(registry, objs)
          /\ technology_names(registry', objs') = technology_names(registry, objs)
          /\ (last'.xml = <<"<technology>", "</technology>">>
                => (~last'.err /\ objs'[OwnId] = DefaultTechnology))
     /\ Len(registry') > Len(registry) => last'.op = "register_technology"]_vars

\* technology_from_xml has read a named record while the registry holds a
\* record, and no record of that name is registered.
C15_Witness ==
  /\ last.op = "technology_from_xml"
  /\ ~last.err
  /\ objs[OwnId].name # ""
  /\ Len(registry) > 0
  /\ ~Technologies_has_technology(registry, objs, objs[OwnId].name)

\* technology_from_xml has rejected a document while the registry holds a
\* record.
C15_WitnessMalformed ==
  /\ last.op = "technology_from_xml"
  /\ last.err
  /\ Len(registry) > 0

\* C16: a virtual call of each of the five methods runs the script callback
\* if and only if the callback of the method can issue, and QHoverEvent's
\* method otherwise, never both and never neither; the implementation gets
\* the argument of the call and the caller gets the value it returned.
C16_VirtualRouting ==
  call.op = "virtual" =>
    /\ call.via_cb <=> cb[call.method]
    /\ call.via_base <=> ~cb[call.method]
    /\ call.via_cb => (call.cb_arg = call.arg /\ call.cb_runs = 1)
    /\ call.via_base => (/\ call.base_arg = call.arg
                         /\ call.base_runs = 1
                         /\ call.cb_runs = 0
                         /\ call.done
                         /\ call.ret = call.base_ret)
    /\ (call.via_cb /\ call.done) => call.ret = call.cb_ret

\* A virtual setTimestamp call with a time stamp other than zero has gone to
\* the script callback and returned, while isBeginEvent has no callback
\* that can issue.
C16_Witness ==
  /\ call.op = "virtual"
  /\ call.done
  /\ call.method = "setTimestamp"
  /\ call.arg # "0"
  /\ call.via_cb
  /\ ~cb["isBeginEvent"]

\* A virtual isUpdateEvent call has gone to QHoverEvent and returned TRUE
\* while setAccepted has a callback that can issue.
C16_WitnessBase ==
  /\ call.op = "virtual"
  /\ call.done
  /\ call.method = "isUpdateEvent"
  /\ call.via_base
  /\ call.ret = "true"
  /\ cb["setAccepted"]

\* C17: a call of a cbs_ entry runs QHoverEvent's method and nothing else:
\* it starts no script callback, whatever callbacks are installed, so that a
\* callback never runs inside a callback and every run of QHoverEvent's
\* method is the one of a cbs_ call or of a virtual call without callback.
C17_CbsCallsBaseDirectly ==
  /\ Len(frames) <= 1
  /\ call.cb_runs = (IF call.op = "virtual" /\ cb[call.method] THEN 1 ELSE 0)
  /\ call.base_runs = call.cbs_calls + (IF call.via_base THEN 1 ELSE 0)
  /\ call.op = "_call_cbs" => (call.done /\ call.cb_runs = 0 /\ call.base_arg = call.arg)
  /\ call.step = "_call_cbs" => call.base_ret = QHoverEvent(call.cbs_method, event, call.base_arg).ret

\* The script callback of a method has called the inherited method (the
\* cbs_ entry of the same method, whose callback can issue) and is still
\* running.
C17_Witness ==
  /\ call.op = "virtual"
  /\ call.step = "_call_cbs"
  /\ Len(frames) = 1
  /\ call.cbs_method = call.method
  /\ cb[call.method]
  /\ call.base_runs = 1

\* C18: create_technology for a name that is registered reports an error,
\* hands out no reference and leaves the registry and every stored record,
\* the one of that name included, as they were.
C18_CreateCollisionFails ==
  [][(/\ last'.op = "create_technology"
      /\ Technologies_has_technology(registry, objs, last'.name))
     => (/\ last'.err
         /\ ref' = ref
         /\ registry' = registry
         /\ objs' = objs)]_vars

\* create_technology has failed for the name of a stored record that has a
\* description, while the script holds a reference to another record.
C18_Witness ==
  /\ last.op = "create_technology"
  /\ last.err
  /\ \E i \in 1 .. Len(registry) :
       /\ objs[registry[i]].name = last.name
       /\ objs[registry[i]].description = "d"
       /\ ref # registry[i]
  /\ Live(ref)

====
